---- MODULE Spec2Model ----
(***************************************************************************)
(* The WebSocket relay of cs-demo-manager (class WebSocketServer): one     *)
(* tracked renderer socket, dispatch of incoming messages to handlers by   *)
(* name, and the Reply / ReplyError sent when a handler settles.           *)
(*                                                                         *)
(* JavaScript values are records [type, v]: type is what typeof yields     *)
(* and v a printed form of the value.  JSON text is modelled as what       *)
(* JSON.stringify writes: a string is quoted, a number is printed, a key   *)
(* whose value is undefined is left out, a BigInt makes it throw.          *)
(*                                                                         *)
(* One step of the model is one run-to-completion piece of the event       *)
(* loop: a socket event (connection, message, close), the settlement of a  *)
(* handler's promise, or the continuation of an awaiting                   *)
(* onRendererProcessSocketMessage call (a microtask).  Continuations run   *)
(* first in, first out, and all run before the next socket event.          *)
(***************************************************************************)
EXTENDS Integers, Sequences, FiniteSets, TLC

\* ------------------------------------------------------------------ bounds
MaxSockets == 2
MaxMessages == 2
MaxDirect == 1
MaxBroadcast == 1

Sockets == 1..MaxSockets
Mids == 1..MaxMessages

\* the null of rendererProcessSocket; sockets are numbered from 1
NULL == 0

\* ------------------------------------------------------- JavaScript values
Str(s) == [type |-> "string", v |-> s]
Num(n) == [type |-> "number", v |-> n]
Undefined == [type |-> "undefined", v |-> "undefined"]
BigIntValue == [type |-> "bigint", v |-> "1n"]
ErrorObject == [type |-> "object", v |-> "Error"]
TypeErrorObject == [type |-> "object", v |-> "TypeError"]

\* ErrorCode.UnknownError, a member of a numeric enum
UnknownError == Num("ErrorCode.UnknownError")

\* ------------------------------------------------------------- JSON text
Absent == "<absent>"
\* a text JSON.parse throws on
Malformed == [name |-> "<malformed>", payload |-> Absent, uuid |-> Absent]
NoData == [name |-> "", payload |-> Absent, uuid |-> Absent]

\* JSON.stringify of one value that it can write
JSONtext(value) ==
    CASE value.type = "string" -> "\"" \o value.v \o "\""
      [] value.type = "number" -> value.v
      [] value.type = "undefined" -> Absent
      [] OTHER -> "{}"

\* JSON.stringify throws a TypeError on a BigInt
Serializable(message) ==
    /\ message.payload.type # "bigint"
    /\ message.uuid.type # "bigint"

JSONstringify(message) ==
    [name |-> message.name,
     payload |-> JSONtext(message.payload),
     uuid |-> JSONtext(message.uuid)]

\* the values a renderer can put in a message, and JSON.parse of their text
JsonValues == {Num("7"), Str("u1"), Str("u2")}

JSONparseValue(text) ==
    IF text = Absent THEN Undefined
    ELSE CHOOSE value \in JsonValues : JSONtext(value) = text

Parses(data) == data # Malformed

JSONparse(data) ==
    [name |-> data.name,
     payload |-> JSONparseValue(data.payload),
     uuid |-> JSONparseValue(data.uuid)]

\* the raw data of the message events the renderer may send: a text that is
\* no JSON, a message whose name has no handler, and messages for the two
\* handlers, one with and one without a payload, under two uuids
MessageNames == {"fetch-matches", "delete-demos", "no-such-message"}
RawMessage(name, payload, uuid) ==
    [name |-> name, payload |-> payload, uuid |-> JSONtext(Str(uuid))]
RawData ==
    {Malformed,
     RawMessage("no-such-message", JSONtext(Num("7")), "u1"),
     RawMessage("fetch-matches", JSONtext(Num("7")), "u1"),
     RawMessage("delete-demos", Absent, "u2")}

\* ------------------------------------------------------- the handler table
rendererHandlers ==
    [name \in MessageNames |->
        CASE name = "fetch-matches" -> [type |-> "function", v |-> "fetchMatchesHandler"]
          [] name = "delete-demos" -> [type |-> "function", v |-> "deleteDemosHandler"]
          [] OTHER -> Undefined]

\* ------------------------------------------------------------------ state
VARIABLES
    rendererProcessSocket,  \* the tracked socket, or NULL
    readyState,             \* of each socket: "NEW" (not yet connected), "OPEN", "CLOSED"
    listeners,              \* the sockets the relay put its listeners on, in order
    requests,               \* the message events so far, in order of arrival
    calls,                  \* the handler invocations so far
    microtasks,             \* the awaiting calls whose handler has settled, in order
    settled,                \* the order in which the handlers settled
    sends,                  \* the calls of sendMessageToRendererProcess so far
    broadcasts              \* the calls of broadcast so far

vars == <<rendererProcessSocket, readyState, listeners, requests, calls,
          microtasks, settled, sends, broadcasts>>

NoOutcome == [kind |-> "none", value |-> Undefined]

Range(s) == {s[i] : i \in 1..Len(s)}

Init ==
    /\ rendererProcessSocket = NULL
    /\ readyState = [s \in Sockets |-> "NEW"]
    /\ listeners = <<>>
    /\ requests = <<>>
    /\ calls = <<>>
    /\ microtasks = <<>>
    /\ settled = <<>>
    /\ sends = <<>>
    /\ broadcasts = <<>>

\* --------------------------------------------------------------- messages
\* a Reply that carries the uuid in place of the result
ReplyMessage_UuidAsPayload(result, uuid) ==
    [name |-> "Reply", payload |-> uuid, uuid |-> uuid]

ReplyMessage(result, uuid) ==
    [name |-> "Reply", payload |-> result, uuid |-> uuid]

ReplyErrorMessage(payload, uuid) ==
    [name |-> "ReplyError", payload |-> payload, uuid |-> uuid]

DirectMessages ==
    {[name |-> "server-notice", payload |-> Str("n"), uuid |-> Undefined]}

\* --------------------------------------------------- sendMessageToRendererProcess
\* sendMessageToRendererProcess without its null check: send is called on
\* null, which throws
sendMessageToRendererProcess_NoNullCheck(message, mid) ==
    IF rendererProcessSocket # NULL /\ Serializable(message)
    THEN [mid |-> mid, message |-> message, tracked |-> rendererProcessSocket,
          socket |-> rendererProcessSocket, data |-> JSONstringify(message),
          threw |-> FALSE]
    ELSE [mid |-> mid, message |-> message, tracked |-> rendererProcessSocket,
          socket |-> NULL, data |-> NoData, threw |-> TRUE]

\* The record of one call: the message it was given, the socket whose send
\* was called (NULL when none was), the text handed to send, and whether the
\* call threw.  mid names the request the message answers (below 1: none).
sendMessageToRendererProcess(message, mid) ==
    IF rendererProcessSocket # NULL
    THEN IF Serializable(message)
         THEN [mid |-> mid, message |-> message, tracked |-> rendererProcessSocket,
               socket |-> rendererProcessSocket, data |-> JSONstringify(message),
               threw |-> FALSE]
         ELSE [mid |-> mid, message |-> message, tracked |-> rendererProcessSocket,
               socket |-> NULL, data |-> NoData, threw |-> TRUE]
    ELSE [mid |-> mid, message |-> message, tracked |-> NULL,
          socket |-> NULL, data |-> NoData, threw |-> FALSE]

\* an ErrorPayload that passes only strings through
ErrorPayload_StringsOnly(error) ==
    IF error.type = "string" THEN error ELSE UnknownError

\* the payload of a ReplyError, from the caught value
ErrorPayload(error) ==
    IF error.type = "string" THEN error
    ELSE IF error.type = "number" THEN error
    ELSE UnknownError

\* the catch block around the handler call and the Reply
CatchBlock(error, uuid, mid) ==
    <<sendMessageToRendererProcess(ReplyErrorMessage(ErrorPayload(error), uuid), mid)>>

\* a try block that runs on into the error reply
TryAfterAwait_FallsThrough(result, uuid, mid) ==
    <<sendMessageToRendererProcess(ReplyMessage(result, uuid), mid),
      sendMessageToRendererProcess(ReplyErrorMessage(UnknownError, uuid), mid)>>

\* a try block whose failure to send the Reply is swallowed
TryAfterAwait_Swallows(result, uuid, mid) ==
    <<sendMessageToRendererProcess(ReplyMessage(result, uuid), mid)>>

\* the try block after the await, once the handler resolved with result
TryAfterAwait(result, uuid, mid) ==
    LET reply == sendMessageToRendererProcess(ReplyMessage(result, uuid), mid)
    IN  IF reply.threw
        THEN <<reply>> \o CatchBlock(TypeErrorObject, uuid, mid)
        ELSE <<reply>>

\* ------------------------------------------------------------- event loop
\* a socket event is dispatched only once every queued continuation has run
MacrotaskReady == microtasks = <<>>

\* ------------------------------------------------------------ connections
\* onConnection keeping the socket it tracks already
onConnection_KeepTracked(webSocket, urlDefined) ==
    /\ MacrotaskReady
    /\ readyState[webSocket] = "NEW"
    /\ \A s \in Sockets : s < webSocket => readyState[s] # "NEW"
    /\ readyState' = [readyState EXCEPT ![webSocket] = "OPEN"]
    /\ IF ~urlDefined
       THEN UNCHANGED <<rendererProcessSocket, listeners>>
       ELSE /\ rendererProcessSocket' =
                  IF rendererProcessSocket = NULL THEN webSocket
                  ELSE rendererProcessSocket
            /\ listeners' = Append(listeners, webSocket)
    /\ UNCHANGED <<requests, calls, microtasks, settled, sends, broadcasts>>

onConnection(webSocket, urlDefined) ==
    /\ MacrotaskReady
    /\ readyState[webSocket] = "NEW"
    /\ \A s \in Sockets : s < webSocket => readyState[s] # "NEW"
    /\ readyState' = [readyState EXCEPT ![webSocket] = "OPEN"]
    /\ IF ~urlDefined
       THEN UNCHANGED <<rendererProcessSocket, listeners>>
       ELSE /\ rendererProcessSocket' = webSocket
            /\ listeners' = Append(listeners, webSocket)
    /\ UNCHANGED <<requests, calls, microtasks, settled, sends, broadcasts>>

onRendererProcessSocketDisconnect(webSocket) ==
    rendererProcessSocket' = NULL

\* the close event of a socket: the relay's listener runs when it has one
SocketClose(webSocket) ==
    /\ MacrotaskReady
    /\ readyState[webSocket] = "OPEN"
    /\ readyState' = [readyState EXCEPT ![webSocket] = "CLOSED"]
    /\ IF webSocket \in Range(listeners)
       THEN onRendererProcessSocketDisconnect(webSocket)
       ELSE UNCHANGED rendererProcessSocket
    /\ UNCHANGED <<listeners, requests, calls, microtasks, settled, sends, broadcasts>>

\* --------------------------------------------------------------- requests
Request(webSocket, data, st, outcome) ==
    [sock |-> webSocket, data |-> data, st |-> st, outcome |-> outcome]

\* what a called handler does before it returns: it returns a promise still
\* pending, or it throws
HandlerBehaviours(handler) ==
    {[kind |-> "pending", value |-> Undefined]} \cup
    (IF handler = "deleteDemosHandler"
     THEN {[kind |-> "throw", value |-> ErrorObject]}
     ELSE {})

\* how the pending promise of a handler may settle
Settlements(handler) ==
    IF handler = "fetchMatchesHandler"
    THEN {[kind |-> "resolve", value |-> Str("r")],
          [kind |-> "resolve", value |-> BigIntValue],
          [kind |-> "reject", value |-> Str("boom")]}
    ELSE {[kind |-> "reject", value |-> Num("42")],
          [kind |-> "reject", value |-> ErrorObject]}

\* a lookup that falls back to a default handler
LookupHandler_Default(message) ==
    IF rendererHandlers[message.name].type = "function"
    THEN rendererHandlers[message.name]
    ELSE rendererHandlers["fetch-matches"]

\* the lookup in the handler table, by the name of the message
LookupHandler(message) == rendererHandlers[message.name]

AllSettlements ==
    UNION {Settlements(rendererHandlers[name].v) : name \in MessageNames}

\* a guard that asks whether the message came from the tracked socket
RendererSocketMissing_NotTracked(webSocket) == rendererProcessSocket # webSocket

\* the guard of the message listener: no socket is tracked
RendererSocketMissing(webSocket) == rendererProcessSocket = NULL

\* the message listener, up to its await
onRendererProcessSocketMessage(webSocket, data) ==
    LET mid == Len(requests) + 1 IN
    IF RendererSocketMissing(webSocket)
    THEN /\ requests' = Append(requests, Request(webSocket, data, "discarded", NoOutcome))
         /\ UNCHANGED <<calls, settled, sends>>
    ELSE IF ~Parses(data)
    THEN /\ requests' = Append(requests, Request(webSocket, data, "failed", NoOutcome))
         /\ UNCHANGED <<calls, settled, sends>>
    ELSE LET message == JSONparse(data)
             handler == LookupHandler(message)
         IN  IF handler.type = "function"
             THEN /\ calls' = Append(calls, [mid |-> mid, handler |-> handler.v,
                                             arg |-> message.payload])
                  /\ \E behaviour \in HandlerBehaviours(handler.v) :
                     IF behaviour.kind = "throw"
                     THEN /\ requests' = Append(requests,
                                 Request(webSocket, data, "done", behaviour))
                          /\ settled' = Append(settled, mid)
                          /\ sends' = sends \o CatchBlock(behaviour.value, message.uuid, mid)
                     ELSE /\ requests' = Append(requests,
                                 Request(webSocket, data, "pending", NoOutcome))
                          /\ UNCHANGED <<settled, sends>>
             ELSE /\ requests' = Append(requests, Request(webSocket, data, "unknown", NoOutcome))
                  /\ UNCHANGED <<calls, settled, sends>>

\* the message event of an open socket the relay listens on
SocketMessage(webSocket, data) ==
    /\ MacrotaskReady
    /\ Len(requests) < MaxMessages
    /\ readyState[webSocket] = "OPEN"
    /\ webSocket \in Range(listeners)
    /\ onRendererProcessSocketMessage(webSocket, data)
    /\ UNCHANGED <<rendererProcessSocket, readyState, listeners, microtasks, broadcasts>>

\* the promise of a called handler settles: the awaiting call is queued
HandlerSettles(mid, outcome) ==
    /\ mid \in 1..Len(requests)
    /\ requests[mid].st = "pending"
    /\ outcome \in Settlements(calls[CHOOSE i \in 1..Len(calls) : calls[i].mid = mid].handler)
    /\ requests' = [requests EXCEPT ![mid].st = "queued", ![mid].outcome = outcome]
    /\ microtasks' = Append(microtasks, mid)
    /\ settled' = Append(settled, mid)
    /\ UNCHANGED <<rendererProcessSocket, readyState, listeners, calls, sends, broadcasts>>

\* continuations run last in, first out
NextToResume_Newest == microtasks[Len(microtasks)]

\* the queued continuation that runs next
NextToResume == Head(microtasks)

\* the message listener, from its await on
ResumeAfterAwait ==
    /\ microtasks # <<>>
    /\ LET mid == NextToResume
           outcome == requests[mid].outcome
           uuid == JSONparse(requests[mid].data).uuid
       IN  /\ sends' = sends \o
                 (IF outcome.kind = "resolve"
                  THEN TryAfterAwait(outcome.value, uuid, mid)
                  ELSE CatchBlock(outcome.value, uuid, mid))
           /\ requests' = [requests EXCEPT ![mid].st = "done"]
           /\ microtasks' = SelectSeq(microtasks, LAMBDA m : m # mid)
    /\ UNCHANGED <<rendererProcessSocket, readyState, listeners, calls, settled,
                   broadcasts>>

\* a call of sendMessageToRendererProcess from elsewhere in the server
DirectCalls == {i \in 1..Len(sends) : sends[i].mid < 1}

DirectSend(message) ==
    /\ Cardinality(DirectCalls) < MaxDirect
    /\ sends' = Append(sends,
          sendMessageToRendererProcess(message, 0 - Cardinality(DirectCalls)))
    /\ UNCHANGED <<rendererProcessSocket, readyState, listeners, requests, calls,
                   microtasks, settled, broadcasts>>

\* -------------------------------------------------------------- broadcast
\* server.clients: the sockets the server has accepted and that have not closed
clients == {s \in Sockets : readyState[s] = "OPEN"}

SharedMessages ==
    {[name |-> "shared-notice", payload |-> Str("s"), uuid |-> Undefined]}

\* the loop over a set of clients, in the order they were added: one send each
RECURSIVE SendToEach(_, _)
SendToEach(remaining, message) ==
    IF remaining = {} THEN <<>>
    ELSE LET client == CHOOSE c \in remaining : \A d \in remaining : c <= d
         IN  IF ~Serializable(message) THEN <<>>
             ELSE <<[socket |-> client, data |-> JSONstringify(message)]>>
                  \o SendToEach(remaining \ {client}, message)

\* a broadcast that reaches the renderer socket only
broadcast_ToRenderer(message) ==
    /\ Len(broadcasts) < MaxBroadcast
    /\ broadcasts' = Append(broadcasts,
          [message |-> message,
           sent |-> SendToEach(clients \cap {rendererProcessSocket}, message)])
    /\ UNCHANGED <<rendererProcessSocket, readyState, listeners, requests, calls,
                   microtasks, settled, sends>>

broadcast(message) ==
    /\ Len(broadcasts) < MaxBroadcast
    /\ broadcasts' = Append(broadcasts,
          [message |-> message, sent |-> SendToEach(clients, message)])
    /\ UNCHANGED <<rendererProcessSocket, readyState, listeners, requests, calls,
                   microtasks, settled, sends>>

Next ==
    \/ \E webSocket \in Sockets, urlDefined \in BOOLEAN : onConnection(webSocket, urlDefined)
    \/ \E webSocket \in Sockets : SocketClose(webSocket)
    \/ \E webSocket \in Sockets, data \in RawData : SocketMessage(webSocket, data)
    \/ \E mid \in Mids, outcome \in AllSettlements : HandlerSettles(mid, outcome)
    \/ ResumeAfterAwait
    \/ \E message \in DirectMessages : DirectSend(message)
    \/ \E message \in SharedMessages : broadcast(message)

Spec == Init /\ [][Next]_vars

\* the event loop runs every queued continuation
FairSpec == Spec /\ WF_vars(ResumeAfterAwait)

\* ------------------------------------------------------------------ claims
Parsed(mid) == JSONparse(requests[mid].data)
Received == 1..Len(requests)
SendIndexes == 1..Len(sends)
\* the calls of sendMessageToRendererProcess for request mid that reached a socket
Answers(mid) == {i \in SendIndexes : sends[i].mid = mid /\ sends[i].socket # NULL}
LastAccepted == listeners[Len(listeners)]

\* C1: rendererProcessSocket is always null or one socket, and a connection
\* whose request URL is defined makes the connected socket the tracked one,
\* whatever was tracked before.
C1_LatestAcceptedConnectionTracked ==
    /\ [](rendererProcessSocket \in Sockets \cup {NULL})
    /\ [][Len(listeners') = Len(listeners) + 1
            => rendererProcessSocket' = listeners'[Len(listeners')]]_vars

C1_Witness ==
    /\ Len(listeners) = 2
    /\ readyState[listeners[1]] = "OPEN"
    /\ rendererProcessSocket = listeners[2]

\* C2: the handler invoked for a parsed message is the entry of
\* rendererHandlers under its name, invoked at most once and alone; a name
\* with no handler function gets no handler call and no Reply or ReplyError.
C2_DispatchByName ==
    /\ \A i \in 1..Len(calls) :
          /\ calls[i].mid \in Received
          /\ Parses(requests[calls[i].mid].data)
          /\ rendererHandlers[Parsed(calls[i].mid).name].type = "function"
          /\ calls[i].handler = rendererHandlers[Parsed(calls[i].mid).name].v
    /\ \A i, j \in 1..Len(calls) : calls[i].mid = calls[j].mid => i = j
    /\ \A mid \in Received :
          (/\ Parses(requests[mid].data)
           /\ rendererHandlers[Parsed(mid).name].type # "function")
          => /\ \A i \in 1..Len(calls) : calls[i].mid # mid
             /\ \A i \in SendIndexes : sends[i].mid # mid

C2_Witness ==
    /\ \E mid \in Received : requests[mid].st = "unknown"
    /\ \E i \in 1..Len(calls) : calls[i].handler = "deleteDemosHandler"

\* C3: the handler is called with the payload field of the parsed message,
\* the Reply message carries the value the handler resolved with, and the
\* text handed to the socket is the JSON text of that message.
C3_PayloadsUntouched ==
    /\ \A i \in 1..Len(calls) : calls[i].arg = Parsed(calls[i].mid).payload
    /\ \A i \in SendIndexes :
          sends[i].message.name = "Reply"
          => /\ requests[sends[i].mid].outcome.kind = "resolve"
             /\ sends[i].message.payload = requests[sends[i].mid].outcome.value
             /\ sends[i].socket # NULL =>
                   sends[i].data.payload = JSONtext(requests[sends[i].mid].outcome.value)

C3_Witness ==
    /\ \E i \in 1..Len(calls) : calls[i].arg = Num("7")
    /\ \E i \in SendIndexes :
          /\ sends[i].message.name = "Reply"
          /\ sends[i].socket # NULL
          /\ sends[i].message.payload = Str("r")

\* C4: a call of sendMessageToRendererProcess while rendererProcessSocket is
\* null sends nothing, does not throw and leaves rendererProcessSocket null,
\* and its message is never handed to a socket later.
C4_DroppedWhenNull ==
    /\ [](\A i \in SendIndexes :
            sends[i].tracked = NULL
            => /\ sends[i].socket = NULL
               /\ ~sends[i].threw
               /\ \A j \in SendIndexes :
                     sends[j].mid = sends[i].mid => sends[j].socket = NULL)
    /\ [][(Len(sends') > Len(sends) /\ rendererProcessSocket = NULL)
            => rendererProcessSocket' = NULL]_vars

C4_Witness ==
    \E i, j \in SendIndexes :
        /\ i < j
        /\ sends[i].tracked = NULL
        /\ sends[i].mid >= 1
        /\ sends[j].socket # NULL

\* C5: whenever the most recently accepted connection is still open,
\* rendererProcessSocket refers to it.
C5_LatestOpenConnectionTracked ==
    (Len(listeners) > 0 /\ readyState[LastAccepted] = "OPEN")
    => rendererProcessSocket = LastAccepted

IsAnswered(mid) == requests[mid].st = "done"
Rejected(mid) == requests[mid].outcome.kind \in {"reject", "throw"}
Resolved(mid) == requests[mid].outcome.kind = "resolve"

\* C6 as stated: a dispatched message gets at most one answer, with its
\* uuid: a Reply when its handler resolved, a ReplyError when it rejected.
C6_ReplyIffResolved ==
    \A mid \in Received :
        /\ Cardinality(Answers(mid)) <= 1
        /\ \A i \in Answers(mid) :
              /\ sends[i].message.uuid = Parsed(mid).uuid
              /\ sends[i].message.name = "Reply" <=> Resolved(mid)
              /\ sends[i].message.name = "ReplyError" <=> Rejected(mid)

\* C6 as amended: at most one answer, with the uuid of the message; a Reply
\* only when the handler resolved with a value JSON.stringify accepts, a
\* ReplyError when the handler rejected or threw, or when it resolved and
\* sending the Reply threw.
C6_OneAnswerPerMessage ==
    \A mid \in Received :
        /\ Cardinality(Answers(mid)) <= 1
        /\ \A i \in Answers(mid) :
              /\ sends[i].message.uuid = Parsed(mid).uuid
              /\ sends[i].data.uuid = requests[mid].data.uuid
              /\ sends[i].message.name \in {"Reply", "ReplyError"}
              /\ sends[i].message.name = "Reply" <=>
                    (Resolved(mid) /\ requests[mid].outcome.value.type # "bigint")
              /\ sends[i].message.name = "ReplyError" <=>
                    \/ Rejected(mid)
                    \/ Resolved(mid) /\ requests[mid].outcome.value.type = "bigint"

C6_Witness ==
    \E mid \in Received :
        /\ Resolved(mid)
        /\ requests[mid].outcome.value = BigIntValue
        /\ \E i \in Answers(mid) : sends[i].message.name = "ReplyError"

\* C7: the answer to a request is handed only to the socket the request
\* arrived on.
C7_AnswerOnRequestSocket ==
    \A i \in SendIndexes :
        (sends[i].mid >= 1 /\ sends[i].socket # NULL)
        => sends[i].socket = requests[sends[i].mid].sock

PositionIn(seq, x) == CHOOSE k \in 1..Len(seq) : seq[k] = x

\* C8: handlers run concurrently; the answers are sent in the order the
\* handlers settled, and each carries the uuid of its own request.
C8_AnswersInSettleOrder ==
    /\ \A i \in SendIndexes :
          sends[i].mid >= 1
          => /\ sends[i].mid \in Range(settled)
             /\ sends[i].message.uuid = Parsed(sends[i].mid).uuid
    /\ \A i, j \in SendIndexes :
          (i < j /\ sends[i].mid >= 1 /\ sends[j].mid >= 1
             /\ sends[i].mid # sends[j].mid)
          => PositionIn(settled, sends[i].mid) < PositionIn(settled, sends[j].mid)

\* the second request was dispatched while the first was pending, and was
\* answered first, under another uuid
C8_Witness ==
    /\ Len(calls) = 2
    /\ Parsed(1).uuid # Parsed(2).uuid
    /\ settled = <<2, 1>>
    /\ \E i, j \in SendIndexes :
          i < j /\ sends[i].mid = 2 /\ sends[j].mid = 1
                /\ sends[i].socket # NULL /\ sends[j].socket # NULL

\* C9: when a handler rejects, the ReplyError payload is the rejected value
\* when that is a string or a number, and ErrorCode.UnknownError otherwise.
C9_ErrorPayloadByType ==
    \A i \in SendIndexes :
        (sends[i].mid >= 1 /\ Rejected(sends[i].mid))
        => LET error == requests[sends[i].mid].outcome.value
           IN  /\ sends[i].message.name = "ReplyError"
               /\ error.type \in {"string", "number"} => sends[i].message.payload = error
               /\ error.type \notin {"string", "number"} =>
                     sends[i].message.payload = UnknownError

C9_Witness ==
    /\ \E i \in SendIndexes :
          /\ sends[i].socket # NULL
          /\ sends[i].mid >= 1
          /\ requests[sends[i].mid].outcome = [kind |-> "reject", value |-> Num("42")]
          /\ sends[i].message.payload = Num("42")
    /\ \E i \in SendIndexes :
          /\ sends[i].socket # NULL
          /\ sends[i].mid >= 1
          /\ requests[sends[i].mid].outcome = [kind |-> "reject", value |-> ErrorObject]
          /\ sends[i].message.payload = UnknownError

\* C10: once a handler has settled with a socket tracked, a Reply or
\* ReplyError with the uuid of its message is eventually sent; when no
\* socket is tracked as the settled handler's call goes on, no answer to
\* that message is ever sent.
C10_SettledIsAnswered ==
    /\ \A mid \in Mids :
          (mid \in Range(microtasks) /\ rendererProcessSocket # NULL)
          ~> (\E i \in Answers(mid) :
                 /\ sends[i].message.name \in {"Reply", "ReplyError"}
                 /\ sends[i].message.uuid = Parsed(mid).uuid)
    /\ [](\A mid \in Received :
            (\E i \in SendIndexes : sends[i].mid = mid /\ sends[i].tracked = NULL)
            => Answers(mid) = {})

C10_Witness ==
    /\ \E mid \in Received :
          /\ IsAnswered(mid)
          /\ requests[mid].outcome.kind = "reject"
          /\ Answers(mid) # {}
    /\ \E mid \in Received :
          /\ IsAnswered(mid)
          /\ requests[mid].outcome.kind = "resolve"
          /\ Answers(mid) = {}
          /\ \E i \in SendIndexes : sends[i].mid = mid /\ sends[i].tracked = NULL

\* C11: a message event that fires while rendererProcessSocket is null is
\* discarded before it is parsed: no handler call, no answer, and the field
\* stays null; one that fires while a socket is tracked is processed (parsed
\* and, when its name has a handler, dispatched) whichever socket it came
\* from.
C11_DiscardedOnlyWhenNull ==
    /\ [](\A mid \in Received :
            requests[mid].st = "discarded"
            => /\ \A i \in 1..Len(calls) : calls[i].mid # mid
               /\ \A i \in SendIndexes : sends[i].mid # mid)
    /\ [][Len(requests') = Len(requests) + 1
            => LET request == requests'[Len(requests')]
               IN  IF rendererProcessSocket = NULL
                   THEN /\ request.st = "discarded"
                        /\ rendererProcessSocket' = NULL
                        /\ calls' = calls
                        /\ sends' = sends
                   ELSE /\ request.st # "discarded"
                        /\ request.st = "failed" <=> ~Parses(request.data)
                        /\ (/\ Parses(request.data)
                            /\ rendererHandlers[JSONparse(request.data).name].type
                                  = "function")
                           => /\ Len(calls') = Len(calls) + 1
                              /\ calls'[Len(calls')].mid = Len(requests')]_vars

\* a message that is no JSON was discarded unparsed, and a message from a
\* replaced socket was dispatched and answered on the socket tracked then
C11_Witness ==
    /\ \E mid \in Received :
          requests[mid].st = "discarded" /\ ~Parses(requests[mid].data)
    /\ \E mid \in Received :
          /\ requests[mid].outcome.kind = "throw"
          /\ \E i \in Answers(mid) : sends[i].socket # requests[mid].sock

\* C12: broadcast sends the message to every client in the server's client
\* set at the time of the call, once each, whether or not a renderer socket
\* is tracked; it leaves rendererProcessSocket alone, and with no client it
\* sends nothing.
C12_BroadcastToEveryClient ==
    /\ [](\A b \in 1..Len(broadcasts) :
            \A k, l \in 1..Len(broadcasts[b].sent) :
                /\ broadcasts[b].sent[k].data = JSONstringify(broadcasts[b].message)
                /\ broadcasts[b].sent[k].socket = broadcasts[b].sent[l].socket => k = l)
    /\ [][Len(broadcasts') = Len(broadcasts) + 1
            => LET sent == broadcasts'[Len(broadcasts')].sent
               IN  /\ {sent[k].socket : k \in 1..Len(sent)}
                         = {s \in Sockets : readyState[s] = "OPEN"}
                   /\ Len(sent) = Cardinality({s \in Sockets : readyState[s] = "OPEN"})
                   /\ (\A s \in Sockets : readyState[s] # "OPEN") => sent = <<>>
                   /\ rendererProcessSocket' = rendererProcessSocket
                   /\ sends' = sends]_vars

\* a broadcast reached two clients although no renderer socket was ever tracked
C12_Witness ==
    /\ listeners = <<>>
    /\ rendererProcessSocket = NULL
    /\ \E b \in 1..Len(broadcasts) : Len(broadcasts[b].sent) = 2

====
